---- MODULE Spec2Model ----
(***************************************************************************)
(* Story -> Chapter -> Bubble backend (src/main.py, src/schemas.py).       *)
(* State: the three store collections, the store's identity generator and  *)
(* the request handlers in flight (one per worker thread), each advancing  *)
(* one store access at a time so that concurrent requests interleave.      *)
(***************************************************************************)
EXTENDS Integers, Sequences, FiniteSets, TLC

\* ---------------------------------------------------------------- bounds
\* Records created in one behaviour, on top of the store it starts from.
MaxNew == 2
\* Length of an identity's hex rendering (24 in bson; shortened here).
OidLen == 2

\* Worker threads of the host runtime. The client of a thread outside Readers
\* submits creates only: a read leaves the store as it is, so a second
\* concurrent reader adds no interleaving of store accesses.
Workers == {1, 2}
Readers == {1}

\* ------------------------------------------------------------ identifiers
NoneVal == "None"

HexLower == <<"0", "1", "2", "3", "4", "5", "6", "7", "8", "9",
              "a", "b", "c", "d", "e", "f">>
HexUpper == <<"0", "1", "2", "3", "4", "5", "6", "7", "8", "9",
              "A", "B", "C", "D", "E", "F">>

\* The value of every hex digit, in either case.
HexTable ==
    [c \in {HexLower[v] : v \in 1..16} \cup {HexUpper[v] : v \in 1..16} |->
        (CHOOSE v \in 1..16 : HexLower[v] = c \/ HexUpper[v] = c) - 1]

IsHexChar(c) == c \in DOMAIN HexTable

\* int(c, 16)
HexValue(c) == HexTable[c]

\* ObjectId.is_valid(s) for a str: the right length, hex characters only.
is_valid(s) == Len(s) = OidLen /\ \A i \in 1..Len(s) : IsHexChar(s[i])

\* ObjectId(s): the identity's nibbles, bytes.fromhex(s).
ObjectId(s) == [i \in 1..Len(s) |-> HexValue(s[i])]

\* str(oid): the lower-case hex rendering.
Str(oid) == [i \in 1..Len(oid) |-> HexLower[oid[i] + 1]]

\* The upper-case rendering a client may submit instead.
StrUpper(oid) == [i \in 1..Len(oid) |-> HexUpper[oid[i] + 1]]

\* The n-th identity the store generates.
GenOid(n) == [i \in 1..OidLen |-> IF i < OidLen THEN 10 ELSE (9 + n) % 16]

\* ------------------------------------------------------------- payloads
StoryA == [title |-> "A", author |-> NoneVal, cover_image |-> NoneVal, description |-> NoneVal]
StoryB == [title |-> "B", author |-> "ann", cover_image |-> "img", description |-> "d"]
StoryPayloads ==
    {StoryA, StoryB,
     [title |-> NoneVal, author |-> "ann", cover_image |-> NoneVal, description |-> NoneVal]}

\* The documented example, as the create requests that build it: story S1,
\* chapters C1 (order 1) and C2 (order 0) under it, bubble B1 under C1.
ExampleOps ==
    << [kind |-> "story", payload |-> StoryB],
       [kind |-> "chapter",
        payload |-> [story_id |-> Str(GenOid(1)), title |-> "t", order |-> 1]],
       [kind |-> "chapter",
        payload |-> [story_id |-> Str(GenOid(1)), title |-> "t", order |-> 0]],
       [kind |-> "bubble",
        payload |-> [chapter_id |-> Str(GenOid(2)), content_html |-> "<p>x</p>", order |-> 0]] >>

\* The stores a behaviour starts from: empty, or the example's. A behaviour
\* that starts from the example's store creates one record fewer.
Seeds == {[ops |-> <<>>, created |-> 0], [ops |-> ExampleOps, created |-> 1]}

\* Identities a client may name: those of the example's records.
KnownOids == {GenOid(n) : n \in 1..Len(ExampleOps)}

\* Those a client may also name in upper case: S1's and C1's in the example.
UpperOids == {GenOid(1), GenOid(2)}

\* The identities the store can hand out in one behaviour, in order.
Generated == [n \in 1..(Len(ExampleOps) + MaxNew) |-> GenOid(n)]

\* Which allocation an identity came from (0: none).
CounterOf(oid) ==
    IF \E n \in DOMAIN Generated : Generated[n] = oid
    THEN CHOOSE n \in DOMAIN Generated : Generated[n] = oid
    ELSE 0

\* Identifier strings a client submits: both accepted textual forms of the
\* known identities, a non-hex string and a too-short one.
Malformed == {[i \in 1..OidLen |-> "z"], [i \in 1..(OidLen - 1) |-> "a"]}
IdInputs == {Str(o) : o \in KnownOids} \cup {StrUpper(o) : o \in UpperOids} \cup Malformed

Orders == {-1, 0, 1}

ChapterPayloads ==
    [story_id : IdInputs, title : {"t"}, order : Orders]
        \cup {[story_id |-> Str(GenOid(1)), title |-> NoneVal, order |-> 0]}

BubblePayloads ==
    [chapter_id : IdInputs, content_html : {"<p>x</p>"}, order : Orders]
        \cup {[chapter_id |-> Str(GenOid(2)), content_html |-> NoneVal, order |-> 0]}

\* ---------------------------------------------------------------- state
VARIABLES
    story,      \* db["story"]: the stored Story documents
    chapter,    \* db["chapter"]
    bubble,     \* db["bubble"]
    nextId,     \* the store's identity generator: the next allocation
    created,    \* records created in this behaviour
    issued,     \* every identity a create returned, with its payload, in order
    pc,         \* per worker: where its handler stands
    req,        \* per worker: the request it handles
    loc,        \* per worker: the handler's local variables
    log,        \* per worker: the store accesses the request made, in order
    since,      \* per worker: allocations made before the request arrived
    out         \* the response on its way to the client, with its request

vars == <<story, chapter, bubble, nextId, created, issued, pc, req, loc, log, since, out>>

NoReq == [op |-> "none"]
NoLoc == [none |-> TRUE]
NoOut == [w |-> 0]

\* create_document: the record with the identity the store assigns.
Document(p, n) == [x \in (DOMAIN p) \cup {"_id"} |-> IF x = "_id" THEN GenOid(n) ELSE p[x]]

Issue(op, n) == [id |-> Str(GenOid(n)), kind |-> op.kind, payload |-> op.payload]

Collection(ops, kind) ==
    {Document(ops[n].payload, n) : n \in {i \in 1..Len(ops) : ops[i].kind = kind}}

Init ==
    /\ \E seed \in Seeds :
         /\ story = Collection(seed.ops, "story")
         /\ chapter = Collection(seed.ops, "chapter")
         /\ bubble = Collection(seed.ops, "bubble")
         /\ nextId = Len(seed.ops) + 1
         /\ issued = [n \in 1..Len(seed.ops) |-> Issue(seed.ops[n], n)]
         /\ created = seed.created
    /\ pc = [w \in Workers |-> "idle"]
    /\ req = [w \in Workers |-> NoReq]
    /\ loc = [w \in Workers |-> NoLoc]
    /\ log = [w \in Workers |-> <<>>]
    /\ since = [w \in Workers |-> 0]
    /\ out = NoOut

\* ------------------------------------------------------ request validation
\* FastAPI validates the body against the endpoint's model and answers 422.
StoryCreateOk(p) == p.title # NoneVal
ChapterCreateOk(p) == p.title # NoneVal
BubbleCreateOk(p) == p.content_html # NoneVal

\* schemas.py: order has ge=0.
ChapterSchemaOk(p) == p.title # NoneVal /\ p.order >= 0
BubbleSchemaOk(p) == p.content_html # NoneVal /\ p.order >= 0

HTTPException(code, detail) == [status |-> code, detail |-> detail]
\* No exception raised, and find_one's None.
NoError == [status |-> 0]
NoDoc == [_id |-> <<>>]
Ok(body) == [status |-> 200, body |-> body]

\* ------------------------------------------------------------ the store
\* Every enumeration of a finite set: the orders in which a cursor may
\* return the documents it matched.
Enumerations(S) ==
    {s \in [1..Cardinality(S) -> S] : \A d \in S : \E i \in 1..Cardinality(S) : s[i] = d}

IsSortedByOrder(s) == \A i, j \in 1..Len(s) : i < j => s[i].order <= s[j].order

FindUnsorted(S) == Enumerations(S)

\* cursor.sort("order", 1): the matches, ascending, ties in any order.
FindSorted(S) == {s \in Enumerations(S) : IsSortedByOrder(s)}

\* sorted(docs, key=order): stable insertion into the sorted prefix.
RECURSIVE InsertByOrder(_, _)
InsertByOrder(s, d) ==
    IF s = <<>> THEN <<d>>
    ELSE IF s[Len(s)].order <= d.order THEN Append(s, d)
    ELSE Append(InsertByOrder(SubSeq(s, 1, Len(s) - 1), d), s[Len(s)])

sorted_skipped(s) == s

RECURSIVE sorted(_)
sorted(s) ==
    IF s = <<>> THEN <<>>
    ELSE InsertByOrder(sorted(SubSeq(s, 1, Len(s) - 1)), s[Len(s)])

\* count_documents({"_id": oid})
count_documents(coll, oid) == Cardinality({d \in coll : d._id = oid})

\* get_documents(collection, filter): the matching documents, in some order.
get_documents(coll, field, value) == Enumerations({d \in coll : d[field] = value})

\* ------------------------------------------------------- request handling
\* A worker takes a request when it handles none and no response is on its
\* way out.
Free(w) == pc[w] = "idle" /\ out = NoOut

\* The handler stops before its next store access. since counts the
\* identities assigned before the request arrived.
Start(w, r, label, locals, accesses) ==
    /\ req' = [req EXCEPT ![w] = r]
    /\ since' = [since EXCEPT ![w] = nextId - 1]
    /\ pc' = [pc EXCEPT ![w] = label]
    /\ loc' = [loc EXCEPT ![w] = locals]
    /\ log' = [log EXCEPT ![w] = accesses]
    /\ out' = NoOut

\* The handler returns or raises: the response leaves with what the request
\* was and did, and the worker is free again.
Respond(w, r, response, accesses, n) ==
    /\ out' = [w |-> w, req |-> r, resp |-> response, log |-> accesses, since |-> n]
    /\ pc' = [pc EXCEPT ![w] = "idle"]
    /\ req' = [req EXCEPT ![w] = NoReq]
    /\ loc' = [loc EXCEPT ![w] = NoLoc]
    /\ log' = [log EXCEPT ![w] = <<>>]
    /\ since' = [since EXCEPT ![w] = 0]

\* The response reaches the client.
Deliver ==
    /\ out # NoOut
    /\ out' = NoOut
    /\ UNCHANGED <<story, chapter, bubble, nextId, created, issued, pc, req, loc, log, since>>

\* ------------------------------------------------------- story endpoints
StoryOutSwapped(d) ==
    [id |-> Str(d._id), title |-> d.title, author |-> d.description,
     cover_image |-> d.cover_image, description |-> d.author]

StoryOut(d) ==
    [id |-> Str(d._id), title |-> d.title, author |-> d.author,
     cover_image |-> d.cover_image, description |-> d.description]

create_story(w, p) ==
    LET r == [op |-> "create_story", payload |-> p]
    IN /\ Free(w)
       /\ IF ~StoryCreateOk(p)
          THEN /\ Respond(w, r, HTTPException(422, "validation"), <<>>, nextId - 1)
               /\ UNCHANGED <<story, nextId, created, issued>>
          ELSE /\ created < MaxNew
               /\ story' = story \cup {Document(p, nextId)}
               /\ nextId' = nextId + 1
               /\ created' = created + 1
               /\ issued' = Append(issued, Issue([kind |-> "story", payload |-> p], nextId))
               /\ Respond(w, r, Ok([id |-> Str(GenOid(nextId))]), <<"story.insert">>,
                          nextId - 1)
       /\ UNCHANGED <<chapter, bubble>>

list_stories(w) ==
    /\ Free(w)
    /\ \E docs \in Enumerations(story) :
          Respond(w, [op |-> "list_stories"],
                  Ok([i \in 1..Len(docs) |-> StoryOut(docs[i])]), <<"story.find">>, nextId - 1)
    /\ UNCHANGED <<story, chapter, bubble, nextId, created, issued>>

\* find_one({"_id": oid}): the document, or None.
find_one(coll, oid) ==
    IF \E d \in coll : d._id = oid THEN CHOOSE d \in coll : d._id = oid ELSE NoDoc

story_lookup_swapped(story_id) ==
    IF ~is_valid(story_id)
    THEN [error |-> HTTPException(404, "Story not found"), log |-> <<"story.find_one">>]
    ELSE IF find_one(story, ObjectId(story_id)) = NoDoc
    THEN [error |-> HTTPException(400, "Invalid story id"), log |-> <<"story.find_one">>]
    ELSE [error |-> NoError, log |-> <<"story.find_one">>]

\* get_story_detail's checks: the exception raised, if any, and the store
\* accesses made on the way.
story_lookup(story_id) ==
    IF ~is_valid(story_id)
    THEN [error |-> HTTPException(400, "Invalid story id"), log |-> <<>>]
    ELSE IF find_one(story, ObjectId(story_id)) = NoDoc
    THEN [error |-> HTTPException(404, "Story not found"), log |-> <<"story.find_one">>]
    ELSE [error |-> NoError, log |-> <<"story.find_one">>]

\* get_story_detail, up to the story lookup.
get_story_detail(w, story_id) ==
    LET r == [op |-> "get_story_detail", story_id |-> story_id]
        found == story_lookup(story_id)
    IN /\ Free(w)
       /\ IF found.error # NoError
          THEN Respond(w, r, found.error, found.log, nextId - 1)
          ELSE Start(w, r, "detail_chapters",
                     [story |-> find_one(story, ObjectId(story_id))], found.log)
       /\ UNCHANGED <<story, chapter, bubble, nextId, created, issued>>

StoryDetail(d, chapter_list) ==
    [id |-> Str(d._id), title |-> d.title, author |-> d.author,
     cover_image |-> d.cover_image, description |-> d.description,
     chapters |-> chapter_list]

\* The chapters of the request's story_id string, sorted by the store.
DetailChapters(story_id) == FindSorted({d \in chapter : d.story_id = story_id})

DetailBubblesOfAll(ch) == FindSorted(bubble)

\* The bubbles of one chapter, sorted by the store.
DetailBubbles(ch) == FindSorted({d \in bubble : d.chapter_id = Str(ch._id)})

BubbleEntry(b) == [id |-> Str(b._id), content_html |-> b.content_html, order |-> b.order]

ChapterEntry(ch, bubbles) ==
    [id |-> Str(ch._id), title |-> ch.title, order |-> ch.order,
     bubbles |-> [i \in 1..Len(bubbles) |-> BubbleEntry(bubbles[i])]]

\* get_story_detail: the chapters query.
detail_find_chapters(w) ==
    /\ pc[w] = "detail_chapters"
    /\ out = NoOut
    /\ \E chapters \in DetailChapters(req[w].story_id) :
          IF chapters = <<>>
          THEN Respond(w, req[w], Ok(StoryDetail(loc[w].story, <<>>)),
                       Append(log[w], "chapter.find"), since[w])
          ELSE /\ pc' = [pc EXCEPT ![w] = "detail_bubbles"]
               /\ loc' = [loc EXCEPT ![w] =
                      [story |-> loc[w].story, chapters |-> chapters, chapter_list |-> <<>>]]
               /\ log' = [log EXCEPT ![w] = Append(@, "chapter.find")]
               /\ UNCHANGED <<req, since, out>>
    /\ UNCHANGED <<story, chapter, bubble, nextId, created, issued>>

\* get_story_detail: one turn of the loop over the chapters.
detail_find_bubbles(w) ==
    /\ pc[w] = "detail_bubbles"
    /\ out = NoOut
    /\ LET ch == Head(loc[w].chapters)
       IN \E bubbles \in DetailBubbles(ch) :
            LET chapter_list == Append(loc[w].chapter_list, ChapterEntry(ch, bubbles))
            IN IF Tail(loc[w].chapters) = <<>>
               THEN Respond(w, req[w], Ok(StoryDetail(loc[w].story, chapter_list)),
                            Append(log[w], "bubble.find"), since[w])
               ELSE /\ loc' = [loc EXCEPT ![w].chapters = Tail(@),
                                            ![w].chapter_list = chapter_list]
                    /\ log' = [log EXCEPT ![w] = Append(@, "bubble.find")]
                    /\ UNCHANGED <<pc, req, since, out>>
    /\ UNCHANGED <<story, chapter, bubble, nextId, created, issued>>

\* ----------------------------------------------------- chapter endpoints
ChapterOut(d) ==
    [id |-> Str(d._id), story_id |-> d.story_id, title |-> d.title, order |-> d.order]

chapter_parent_unchecked(p) ==
    IF ~is_valid(p.story_id)
    THEN [error |-> HTTPException(400, "Invalid story id"), log |-> <<>>]
    ELSE [error |-> NoError, log |-> <<>>]

\* create_chapter's parent check: the exception raised, if any, and the
\* store accesses made on the way.
chapter_parent(p) ==
    IF ~is_valid(p.story_id)
    THEN [error |-> HTTPException(400, "Invalid story id"), log |-> <<>>]
    ELSE IF count_documents(story, ObjectId(p.story_id)) = 0
    THEN [error |-> HTTPException(404, "Parent story not found"),
          log |-> <<"story.count_documents">>]
    ELSE [error |-> NoError, log |-> <<"story.count_documents">>]

\* create_chapter, up to the parent check.
create_chapter(w, p) ==
    LET r == [op |-> "create_chapter", payload |-> p]
        parent == chapter_parent(p)
    IN /\ Free(w)
       /\ IF ~ChapterCreateOk(p)
          THEN Respond(w, r, HTTPException(422, "validation"), <<>>, nextId - 1)
          ELSE IF parent.error # NoError
          THEN Respond(w, r, parent.error, parent.log, nextId - 1)
          ELSE /\ created < MaxNew
               /\ Start(w, r, "chapter_insert", NoLoc, parent.log)
       /\ UNCHANGED <<story, chapter, bubble, nextId, created, issued>>

\* create_chapter: the schema object and the insert.
chapter_insert(w) ==
    /\ pc[w] = "chapter_insert"
    /\ out = NoOut
    /\ IF ~ChapterSchemaOk(req[w].payload)
       THEN /\ Respond(w, req[w], HTTPException(500, "Internal Server Error"), log[w],
                       since[w])
            /\ UNCHANGED <<chapter, nextId, created, issued>>
       ELSE /\ created < MaxNew
            /\ chapter' = chapter \cup {Document(req[w].payload, nextId)}
            /\ nextId' = nextId + 1
            /\ created' = created + 1
            /\ issued' = Append(issued,
                                Issue([kind |-> "chapter", payload |-> req[w].payload], nextId))
            /\ Respond(w, req[w], Ok([id |-> Str(GenOid(nextId))]),
                       Append(log[w], "chapter.insert"), since[w])
    /\ UNCHANGED <<story, bubble>>

list_chapters_validating(w, story_id) ==
    /\ Free(w)
    /\ IF ~is_valid(story_id)
       THEN Respond(w, [op |-> "list_chapters", story_id |-> story_id],
                    HTTPException(400, "Invalid story id"), <<>>, nextId - 1)
       ELSE \E docs \in get_documents(chapter, "story_id", story_id) :
              Respond(w, [op |-> "list_chapters", story_id |-> story_id],
                      Ok([i \in 1..Len(docs) |-> ChapterOut(sorted(docs)[i])]),
                      <<"chapter.find">>, nextId - 1)
    /\ UNCHANGED <<story, chapter, bubble, nextId, created, issued>>

list_chapters(w, story_id) ==
    /\ Free(w)
    /\ \E docs \in get_documents(chapter, "story_id", story_id) :
          Respond(w, [op |-> "list_chapters", story_id |-> story_id],
                  Ok([i \in 1..Len(docs) |-> ChapterOut(sorted(docs)[i])]),
                  <<"chapter.find">>, nextId - 1)
    /\ UNCHANGED <<story, chapter, bubble, nextId, created, issued>>

\* ------------------------------------------------------ bubble endpoints
BubbleOut(d) ==
    [id |-> Str(d._id), chapter_id |-> d.chapter_id, content_html |-> d.content_html,
     order |-> d.order]

bubble_parent_in_story(p) ==
    IF ~is_valid(p.chapter_id)
    THEN [error |-> HTTPException(400, "Invalid chapter id"), log |-> <<>>]
    ELSE IF count_documents(story, ObjectId(p.chapter_id)) = 0
    THEN [error |-> HTTPException(404, "Parent chapter not found"),
          log |-> <<"story.count_documents">>]
    ELSE [error |-> NoError, log |-> <<"story.count_documents">>]

\* create_bubble's parent check: the exception raised, if any, and the
\* store accesses made on the way.
bubble_parent(p) ==
    IF ~is_valid(p.chapter_id)
    THEN [error |-> HTTPException(400, "Invalid chapter id"), log |-> <<>>]
    ELSE IF count_documents(chapter, ObjectId(p.chapter_id)) = 0
    THEN [error |-> HTTPException(404, "Parent chapter not found"),
          log |-> <<"chapter.count_documents">>]
    ELSE [error |-> NoError, log |-> <<"chapter.count_documents">>]

\* create_bubble, up to the parent check.
create_bubble(w, p) ==
    LET r == [op |-> "create_bubble", payload |-> p]
        parent == bubble_parent(p)
    IN /\ Free(w)
       /\ IF ~BubbleCreateOk(p)
          THEN Respond(w, r, HTTPException(422, "validation"), <<>>, nextId - 1)
          ELSE IF parent.error # NoError
          THEN Respond(w, r, parent.error, parent.log, nextId - 1)
          ELSE /\ created < MaxNew
               /\ Start(w, r, "bubble_insert", NoLoc, parent.log)
       /\ UNCHANGED <<story, chapter, bubble, nextId, created, issued>>

\* create_bubble: the schema object and the insert.
bubble_insert(w) ==
    /\ pc[w] = "bubble_insert"
    /\ out = NoOut
    /\ IF ~BubbleSchemaOk(req[w].payload)
       THEN /\ Respond(w, req[w], HTTPException(500, "Internal Server Error"), log[w],
                       since[w])
            /\ UNCHANGED <<bubble, nextId, created, issued>>
       ELSE /\ created < MaxNew
            /\ bubble' = bubble \cup {Document(req[w].payload, nextId)}
            /\ nextId' = nextId + 1
            /\ created' = created + 1
            /\ issued' = Append(issued,
                                Issue([kind |-> "bubble", payload |-> req[w].payload], nextId))
            /\ Respond(w, req[w], Ok([id |-> Str(GenOid(nextId))]),
                       Append(log[w], "bubble.insert"), since[w])
    /\ UNCHANGED <<story, chapter>>

list_bubbles(w, chapter_id) ==
    /\ Free(w)
    /\ \E docs \in get_documents(bubble, "chapter_id", chapter_id) :
          Respond(w, [op |-> "list_bubbles", chapter_id |-> chapter_id],
                  Ok([i \in 1..Len(docs) |-> BubbleOut(sorted(docs)[i])]),
                  <<"bubble.find">>, nextId - 1)
    /\ UNCHANGED <<story, chapter, bubble, nextId, created, issued>>

\* ------------------------------------------------------------ the system
Next ==
    \/ Deliver
    \/ \E w \in Workers :
        \/ \E p \in StoryPayloads : create_story(w, p)
        \/ \E p \in ChapterPayloads : create_chapter(w, p)
        \/ chapter_insert(w)
        \/ \E p \in BubblePayloads : create_bubble(w, p)
        \/ bubble_insert(w)
        \/ w \in Readers /\ list_stories(w)
        \/ w \in Readers /\ \E id \in IdInputs : get_story_detail(w, id)
        \/ detail_find_chapters(w)
        \/ detail_find_bubbles(w)
        \/ w \in Readers /\ \E id \in IdInputs : list_chapters(w, id)
        \/ w \in Readers /\ \E id \in IdInputs : list_bubbles(w, id)

Spec == Init /\ [][Next]_vars

\* ------------------------------------------------------------ properties
Responded(op) == out # NoOut /\ out.req.op = op

IsClientError(status) == status \in 400..499
IsServerError(status) == status \in 500..599

\* The store accesses of a request that wrote.
Inserts(accesses) ==
    {i \in 1..Len(accesses) :
        accesses[i] \in {"story.insert", "chapter.insert", "bubble.insert"}}

\* The document of identity oid was among the first n the store created.
ExistedAt(coll, oid, n) == \E d \in coll : d._id = oid /\ CounterOf(d._id) <= n

\* id is an accepted textual form of the identity oid.
Identifies(id, oid) == is_valid(id) /\ ObjectId(id) = oid

Occurrences(entries, id) == Cardinality({i \in 1..Len(entries) : entries[i].id = id})

\* C1: a create_chapter whose story_id is well formed and names no Story
\* answers 404, one whose story_id is malformed answers 400, and neither
\* writes a record; the same for create_bubble and chapter_id.
C1_ParentRejected ==
    /\ (Responded("create_chapter") /\ ChapterCreateOk(out.req.payload)) =>
         LET id == out.req.payload.story_id
         IN /\ ~is_valid(id) => out.resp.status = 400
            /\ (is_valid(id) /\ ~ExistedAt(story, ObjectId(id), out.since)) =>
                   out.resp.status = 404
            /\ out.resp.status \in {400, 404} => Inserts(out.log) = {}
    /\ (Responded("create_bubble") /\ BubbleCreateOk(out.req.payload)) =>
         LET id == out.req.payload.chapter_id
         IN /\ ~is_valid(id) => out.resp.status = 400
            /\ (is_valid(id) /\ ~ExistedAt(chapter, ObjectId(id), out.since)) =>
                   out.resp.status = 404
            /\ out.resp.status \in {400, 404} => Inserts(out.log) = {}

\* A chapter create is answered 404 for a well-formed story_id while the
\* store holds stories, none of them that one.
C1_Witness ==
    /\ Responded("create_chapter")
    /\ out.resp.status = 404
    /\ story # {}
    /\ out.req.payload.order >= 0

\* C2: every stored Chapter's story_id identifies a stored Story and every
\* stored Bubble's chapter_id identifies a stored Chapter.
C2_NoOrphans ==
    /\ \A c \in chapter : \E d \in story : Identifies(c.story_id, d._id)
    /\ \A b \in bubble : \E c \in chapter : Identifies(b.chapter_id, c._id)

\* A chapter was created while another worker's bubble create is between its
\* parent check and its insert.
C2_Witness ==
    /\ created >= 1
    /\ bubble # {}
    /\ \E c \in chapter : c.story_id = StrUpper(GenOid(1))
    /\ pc[2] = "bubble_insert"

\* C3: a create whose payload fails entity validation is rejected as a
\* client error before any store access.
C3_ValidatedBeforeStore ==
    /\ (Responded("create_chapter") /\ ~ChapterSchemaOk(out.req.payload)) =>
         IsClientError(out.resp.status) /\ out.log = <<>>
    /\ (Responded("create_bubble") /\ ~BubbleSchemaOk(out.req.payload)) =>
         IsClientError(out.resp.status) /\ out.log = <<>>

\* C4: list_chapters(story_id) returns exactly the stored Chapters whose
\* story_id is the argument, each once, in non-decreasing order of order;
\* list_bubbles(chapter_id) likewise.
C4_ListSorted ==
    /\ Responded("list_chapters") =>
         LET match == {d \in chapter : d.story_id = out.req.story_id}
         IN /\ out.resp.status = 200
            /\ Len(out.resp.body) = Cardinality(match)
            /\ {out.resp.body[i] : i \in 1..Len(out.resp.body)} = {ChapterOut(d) : d \in match}
            /\ IsSortedByOrder(out.resp.body)
    /\ Responded("list_bubbles") =>
         LET match == {d \in bubble : d.chapter_id = out.req.chapter_id}
         IN /\ out.resp.status = 200
            /\ Len(out.resp.body) = Cardinality(match)
            /\ {out.resp.body[i] : i \in 1..Len(out.resp.body)} = {BubbleOut(d) : d \in match}
            /\ IsSortedByOrder(out.resp.body)

\* A listing of three chapters, two of them with the same order.
C4_Witness ==
    /\ Responded("list_chapters")
    /\ out.resp.status = 200
    /\ Len(out.resp.body) = 3
    /\ out.resp.body[1].order < out.resp.body[3].order
    /\ \E i \in 1..2 : out.resp.body[i].order = out.resp.body[i + 1].order

\* The example's store: S1 with C1 (order 1) holding B1, and C2 (order 0).
ExampleStore ==
    /\ story = Collection(ExampleOps, "story")
    /\ chapter = Collection(ExampleOps, "chapter")
    /\ bubble = Collection(ExampleOps, "bubble")

\* C5: get_story_detail of an existing Story answers with its chapters in
\* ascending order (the empty sequence when it has none), each with its
\* bubbles in ascending order; on the example's store the detail of S1 lists
\* [C2, C1] with C1.bubbles = [B1] and C2.bubbles = [].
C5_DetailSorted ==
    Responded("get_story_detail") =>
      /\ ExistedAt(story, IF is_valid(out.req.story_id) THEN ObjectId(out.req.story_id)
                          ELSE <<>>, out.since) => out.resp.status = 200
      /\ out.resp.status = 200 =>
           LET chapters == out.resp.body.chapters
           IN /\ DOMAIN chapters = 1..Len(chapters)
              /\ IsSortedByOrder(chapters)
              /\ \A i \in 1..Len(chapters) :
                    /\ DOMAIN chapters[i].bubbles = 1..Len(chapters[i].bubbles)
                    /\ IsSortedByOrder(chapters[i].bubbles)
              /\ (\A c \in chapter : ~Identifies(c.story_id, ObjectId(out.req.story_id)))
                    => chapters = <<>>
              /\ (ExampleStore /\ out.req.story_id = Str(GenOid(1))) =>
                    /\ Len(chapters) = 2
                    /\ chapters[1].id = Str(GenOid(3))
                    /\ chapters[1].bubbles = <<>>
                    /\ chapters[2].id = Str(GenOid(2))
                    /\ Len(chapters[2].bubbles) = 1
                    /\ chapters[2].bubbles[1].id = Str(GenOid(4))

\* The detail of S1 on the example's store.
C5_Witness ==
    /\ Responded("get_story_detail")
    /\ out.resp.status = 200
    /\ ExampleStore
    /\ out.req.story_id = Str(GenOid(1))
    /\ Len(out.resp.body.chapters) = 2

\* C6: in a get_story_detail result every chapter entry is a stored Chapter
\* whose story_id identifies the requested Story and every bubble under it
\* is a stored Bubble whose chapter_id identifies that chapter.
C6_NoCrossAssignment ==
    (Responded("get_story_detail") /\ out.resp.status = 200) =>
      \A i \in 1..Len(out.resp.body.chapters) :
        LET e == out.resp.body.chapters[i]
        IN /\ \E c \in chapter :
                /\ Str(c._id) = e.id
                /\ Identifies(c.story_id, ObjectId(out.req.story_id))
           /\ \A j \in 1..Len(e.bubbles) :
                \E b \in bubble :
                   /\ Str(b._id) = e.bubbles[j].id
                   /\ is_valid(e.id)
                   /\ Identifies(b.chapter_id, ObjectId(e.id))

\* A detail with two chapters that each hold a bubble of the same order.
C6_Witness ==
    /\ Responded("get_story_detail")
    /\ out.resp.status = 200
    /\ Len(out.resp.body.chapters) = 2
    /\ Len(out.resp.body.chapters[1].bubbles) = 1
    /\ Len(out.resp.body.chapters[2].bubbles) = 1
    /\ out.resp.body.chapters[1].bubbles[1].order = out.resp.body.chapters[2].bubbles[1].order

\* C7: get_story_detail answers 400 for a malformed id, without any store
\* access, and 404 for a well-formed id that names no Story; never a server
\* error.
C7_DetailErrors ==
    Responded("get_story_detail") =>
      LET id == out.req.story_id
      IN /\ ~is_valid(id) => out.resp.status = 400 /\ out.log = <<>>
         /\ (is_valid(id) /\ ~ExistedAt(story, ObjectId(id), out.since)) =>
                out.resp.status = 404
         /\ ~IsServerError(out.resp.status)

\* A malformed id is answered 400 while the store holds stories.
C7_Witness ==
    /\ Responded("get_story_detail")
    /\ out.resp.status = 400
    /\ out.req.story_id \in Malformed
    /\ story # {}

\* The story fields of a view are the payload's.
SameStory(view, id, p) ==
    /\ view.id = id
    /\ view.title = p.title
    /\ view.author = p.author
    /\ view.cover_image = p.cover_image
    /\ view.description = p.description

\* C8: create_story returns an identity no create returned before, and a
\* later list_stories or get_story_detail of it shows the payload's title,
\* author, cover_image and description.
C8_CreateThenRead ==
    /\ \A i, j \in 1..Len(issued) : i # j => issued[i].id # issued[j].id
    /\ (Responded("create_story") /\ out.resp.status = 200) =>
         /\ issued[Len(issued)] =
               [id |-> out.resp.body.id, kind |-> "story", payload |-> out.req.payload]
         /\ \A k \in 1..(Len(issued) - 1) : issued[k].id # out.resp.body.id
    /\ Responded("list_stories") =>
         \A k \in 1..Len(issued) :
            issued[k].kind = "story" =>
               /\ Occurrences(out.resp.body, issued[k].id) = 1
               /\ \A i \in 1..Len(out.resp.body) :
                     out.resp.body[i].id = issued[k].id =>
                        SameStory(out.resp.body[i], issued[k].id, issued[k].payload)
    /\ Responded("get_story_detail") =>
         \A k \in 1..out.since :
            (issued[k].kind = "story" /\ issued[k].id = out.req.story_id) =>
               /\ out.resp.status = 200
               /\ SameStory(out.resp.body, issued[k].id, issued[k].payload)

\* A listing of two stories created in this behaviour.
C8_Witness ==
    /\ Responded("list_stories")
    /\ created = 2
    /\ Len(out.resp.body) = 2
    /\ out.resp.body[1].title # out.resp.body[2].title

\* C9: list_chapters and list_bubbles answer the empty sequence, not an
\* error, for a parent id that is malformed, names no parent or has no
\* children, and make no store access but the one query.
C9_ListUnvalidated ==
    /\ Responded("list_chapters") =>
         LET id == out.req.story_id
         IN (\/ ~is_valid(id)
             \/ ~\E d \in story : Identifies(id, d._id)
             \/ ~\E c \in chapter : c.story_id = id)
            => /\ out.resp.status = 200
               /\ out.resp.body = <<>>
               /\ out.log = <<"chapter.find">>
    /\ Responded("list_bubbles") =>
         LET id == out.req.chapter_id
         IN (\/ ~is_valid(id)
             \/ ~\E c \in chapter : Identifies(id, c._id)
             \/ ~\E b \in bubble : b.chapter_id = id)
            => /\ out.resp.status = 200
               /\ out.resp.body = <<>>
               /\ out.log = <<"bubble.find">>

\* A malformed story_id is listed as empty while the store holds chapters.
C9_Witness ==
    /\ Responded("list_chapters")
    /\ out.req.story_id \in Malformed
    /\ out.resp.status = 200
    /\ chapter # {}

\* C10: every Chapter created under a Story before a get_story_detail of it
\* arrived is listed once in the detail's chapters, and every Bubble created
\* before under such a Chapter once in its bubbles, whichever accepted form
\* of the parent identifier was submitted.
C10_AllChildrenListed ==
    (Responded("get_story_detail") /\ out.resp.status = 200) =>
      \A c \in chapter :
        (Identifies(c.story_id, ObjectId(out.req.story_id)) /\ CounterOf(c._id) <= out.since) =>
          /\ Occurrences(out.resp.body.chapters, Str(c._id)) = 1
          /\ \A i \in 1..Len(out.resp.body.chapters) :
                out.resp.body.chapters[i].id = Str(c._id) =>
                   \A b \in bubble :
                      (Identifies(b.chapter_id, c._id) /\ CounterOf(b._id) <= out.since) =>
                         Occurrences(out.resp.body.chapters[i].bubbles, Str(b._id)) = 1
====
